---- MODULE Spec2Model ----
(***************************************************************************)
(* A model of sprt/gobugspots, package bugspots (src/bugspots/bugspots.go): *)
(* the record parsers, the Hotspots scoring pipeline and the Slicer of the *)
(* sort-and-slice variant (lines 1-257), the git commands of concurrent    *)
(* calls, and the Hotspots of the ordered-tree variant (lines 259-540).    *)
(*                                                                         *)
(* Text is a sequence of one-character strings.  A float64 score is a      *)
(* record that is NaN or a fixed-point number of hundred-millionths.       *)
(***************************************************************************)
EXTENDS Integers, Sequences, FiniteSets, TLC

VARIABLES
    pc,         \* Hotspots: the next statement to run
    headFiles,  \* Hotspots: local headFiles (nil is the empty sequence)
    tfirst,     \* Hotspots: local tfirst
    tlast,      \* Hotspots: local tlast
    commits,    \* Hotspots: local commits
    err,        \* Hotspots: local err, overwritten by every query
    issued,     \* the queries issued so far, each with the error it returned
    ret,        \* what Hotspots returned: [isNil, list, cap, err]
    raw,        \* parsers: the text handed to the parser
    parsed,     \* parsers: what the parser returned
    slicer,     \* Slicer: [made, minCount, maxCount, percentile]
    input,      \* Slicer: the slice handed to Slice: [arr, len]; cap = Len(arr)
    sliced,     \* Slicer: the outcome of the last call: [op, panic, list]
    cwd,        \* the process: its working directory
    calls,      \* concurrent Hotspots calls: [dir, query, running] of each
    ran,        \* the git commands started: [call, query, dir, cwd]
    tree        \* ordered-tree Hotspots: what it returned: [done, list]

vars == <<pc, headFiles, tfirst, tlast, commits, err, issued, ret,
          raw, parsed, slicer, input, sliced, cwd, calls, ran, tree>>

hotspotVars == <<pc, headFiles, tfirst, tlast, commits, err, issued, ret>>
parserVars == <<raw, parsed>>
slicerVars == <<slicer, input, sliced>>
concVars == <<cwd, calls, ran>>
treeVars == <<tree>>

-----------------------------------------------------------------------------
(* Bounds of the model.                                                    *)

\* the longest text handed to a parser
MaxLen == 6
\* the most lines `git ls-files' prints
MaxFiles == 3
\* the most bug-fix commits `git log' prints
MaxCommits == 3
\* the longest hotspot list handed to Slice
MaxHotspots == 100
\* the most spare capacity behind the hotspot list handed to Slice
MaxSpare == 1

\* the paths of the repositories, as text
Paths == {<<"a">>, <<"b">>, <<"c">>}
\* the commit timestamps of the repositories
Times == {0, 1}
\* the characters of the texts handed to the parsers
Alphabet == {"1", "2", "-", "a", "\n"}

-----------------------------------------------------------------------------
(* Text: strings.Split, strconv.Atoi                                       *)

NL == "\n"
Nil == "nil"

RECURSIVE Join(_, _)
Join(parts, sep) ==
    IF parts = <<>> THEN <<>>
    ELSE IF Len(parts) = 1 THEN parts[1]
    ELSE parts[1] \o sep \o Join(Tail(parts), sep)

\* whether sep occurs in s at position i
MatchAt(s, sep, i) ==
    /\ i + Len(sep) - 1 <= Len(s)
    /\ \A k \in 1..Len(sep) : s[i + k - 1] = sep[k]

\* strings.Split(s, sep), sep not empty: cut at every occurrence of sep found
\* scanning left to right, each scan resuming after the occurrence before it.
RECURSIVE SplitFrom(_, _, _, _)
SplitFrom(s, sep, start, i) ==
    IF i > Len(s) THEN <<SubSeq(s, start, Len(s))>>
    ELSE IF MatchAt(s, sep, i)
         THEN <<SubSeq(s, start, i - 1)>>
              \o SplitFrom(s, sep, i + Len(sep), i + Len(sep))
         ELSE SplitFrom(s, sep, start, i + 1)

Split(s, sep) == SplitFrom(s, sep, 1, 1)

Digits == {"0", "1", "2", "3", "4", "5", "6", "7", "8", "9"}

DigitVal(c) ==
    CASE c = "0" -> 0 [] c = "1" -> 1 [] c = "2" -> 2 [] c = "3" -> 3
      [] c = "4" -> 4 [] c = "5" -> 5 [] c = "6" -> 6 [] c = "7" -> 7
      [] c = "8" -> 8 [] c = "9" -> 9

RECURSIVE DigitsVal(_)
DigitsVal(s) ==
    IF s = <<>> THEN 0
    ELSE 10 * DigitsVal(SubSeq(s, 1, Len(s) - 1)) + DigitVal(s[Len(s)])

\* strconv.Atoi(s): an optional sign, then one or more decimal digits; anything
\* else is a syntax error with value 0.  (Texts here are too short to overflow.)
Atoi(s) ==
    LET signed == s # <<>> /\ s[1] \in {"+", "-"}
        body == IF signed THEN Tail(s) ELSE s
    IN  IF body # <<>> /\ \A k \in 1..Len(body) : body[k] \in Digits
        THEN [val |-> IF signed /\ s[1] = "-" THEN 0 - DigitsVal(body)
                      ELSE DigitsVal(body),
              err |-> Nil]
        ELSE [val |-> 0, err |-> "invalid syntax"]

-----------------------------------------------------------------------------
(* RecordParser: parseLsFiles, parseLog, parseRevList                      *)

\* parseLsFiles without its test for the empty text
parseLsFiles_NoEmptyCase(text) ==
    Split(text, <<NL>>)

parseLsFiles(text) ==
    IF text = <<>> THEN <<>> ELSE Split(text, <<NL>>)

\* parseLogLoop returning, at a bad timestamp, the commits parsed before it
RECURSIVE parseLogLoop_Partial(_, _, _)
parseLogLoop_Partial(records, i, acc) ==
    IF i > Len(records) THEN [isNil |-> FALSE, commits |-> acc, err |-> Nil]
    ELSE LET lines == Split(records[i], <<NL>>)
             timestamp == Atoi(lines[1])
         IN  IF timestamp.err # Nil
             THEN [isNil |-> FALSE, commits |-> acc, err |-> "invalid timestamp"]
             ELSE parseLogLoop_Partial(records, i + 1,
                      Append(acc, [t |-> timestamp.val, files |-> Tail(lines)]))

\* one pass of parseLog's loop over the records from index i on, with the
\* commits appended so far
RECURSIVE parseLogLoop(_, _, _)
parseLogLoop(records, i, acc) ==
    IF i > Len(records) THEN [isNil |-> FALSE, commits |-> acc, err |-> Nil]
    ELSE LET lines == Split(records[i], <<NL>>)
             timestamp == Atoi(lines[1])
         IN  IF timestamp.err # Nil
             THEN [isNil |-> TRUE, commits |-> <<>>, err |-> "invalid timestamp"]
             ELSE parseLogLoop(records, i + 1,
                      Append(acc, [t |-> timestamp.val, files |-> Tail(lines)]))

parseLog(text) ==
    IF text = <<>> THEN [isNil |-> FALSE, commits |-> <<>>, err |-> Nil]
    ELSE parseLogLoop(Split(text, <<NL, NL>>), 1, <<>>)

parseRevList_AtLeastTwo(text) ==
    LET lines == Split(text, <<NL>>)
    IN  IF Len(lines) < 2 THEN [t |-> 0, err |-> "no commits"]
        ELSE LET t == Atoi(lines[2]) IN [t |-> t.val, err |-> t.err]

parseRevList(text) ==
    LET lines == Split(text, <<NL>>)
    IN  IF Len(lines) # 2 THEN [t |-> 0, err |-> "no commits"]
        ELSE LET t == Atoi(lines[2]) IN [t |-> t.val, err |-> t.err]

-----------------------------------------------------------------------------
(* float64 scores: normalizeTimestamp, scoreFunc, hotspotList.Less         *)

\* a float64 score: NaN, or val hundred-millionths (1.0 is 100000000)
NaN == [nan |-> TRUE, val |-> 0]
F(v) == [nan |-> FALSE, val |-> v]

\* float64(t-lo) / float64(hi-lo): IEEE division, so a zero divisor gives NaN
\* (0/0), +Inf or -Inf; otherwise the quotient num/den.
normalizeTimestamp(t, lo, hi) ==
    IF hi - lo = 0
    THEN [kind |-> IF t - lo = 0 THEN "nan" ELSE IF t - lo > 0 THEN "+inf" ELSE "-inf",
          num |-> 0, den |-> 1]
    ELSE [kind |-> "fin", num |-> t - lo, den |-> hi - lo]

\* 1 / (1 + math.Exp(-12*x + 12)), rounded to hundred-millionths:
\* NaN at NaN; 1/(1+0) = 1 at +Inf; 1/(1+Inf) = 0 at -Inf;
\* 1/(1+e^12) = 0.00000614 at 0; 1/(1+e^6) = 0.00247262 at 1/2; 1/2 at 1;
\* 1/(1+e^-12) = 0.99999386 at 2.
scoreFunc(x) ==
    CASE x.kind = "nan" -> NaN
      [] x.kind = "+inf" -> F(100000000)
      [] x.kind = "-inf" -> F(0)
      [] x.kind = "fin" /\ x.num = 0 -> F(614)
      [] x.kind = "fin" /\ 2 * x.num = x.den -> F(247262)
      [] x.kind = "fin" /\ x.num = x.den -> F(50000000)
      [] x.kind = "fin" /\ x.num = 2 * x.den -> F(99999386)

\* score += w
FAdd(a, b) == IF a.nan \/ b.nan THEN NaN ELSE F(a.val + b.val)

\* score != 0 (true of NaN)
NonZero(s) == s.nan \/ s.val # 0

\* a.Score > b.Score (false when either is NaN)
ScoreGreater(a, b) == ~a.nan /\ ~b.nan /\ a.val > b.val

\* hotspotList.Less(i, j): the list is sorted by descending score
Less(l, i, j) == ScoreGreater(l[i].Score, l[j].Score)

-----------------------------------------------------------------------------
(* sort.Sort(hotspots)                                                     *)

Permute(l, p) == [i \in 1..Len(l) |-> l[p[i]]]

\* Less is a strict weak ordering of the list's entries unless a score is NaN
HasNaN(l) == \E i \in 1..Len(l) : l[i].Score.nan

\* data.Swap(i, j)
Swap(l, i, j) == [l EXCEPT ![i] = l[j], ![j] = l[i]]

\* for j := i; j > a && data.Less(j, j-1); j-- { data.Swap(j, j-1) }
RECURSIVE insertBack(_, _)
insertBack(l, j) ==
    IF j > 1 /\ Less(l, j, j - 1) THEN insertBack(Swap(l, j, j - 1), j - 1) ELSE l

\* for i := a + 1; i < b; i++ { ... }
RECURSIVE insertionSort(_, _)
insertionSort(l, i) ==
    IF i > Len(l) THEN l ELSE insertionSort(insertBack(l, i), i + 1)

\* sort.Sort "is not guaranteed to be stable": any arrangement of the list in
\* which no entry is Less than an entry before it is a result.  That is what
\* it promises when Less is a strict weak ordering.  When it is not (a NaN
\* score compares false both ways) it promises no order, and the result is
\* what its algorithm leaves: every release of package sort sorts a list of
\* fewer than 7 entries by insertion sort alone.
SortOutcomes(l) ==
    IF HasNaN(l) /\ Len(l) < 7 THEN {insertionSort(l, 2)}
    ELSE { Permute(l, p) : p \in
             { q \in Permutations(1..Len(l)) :
                 HasNaN(l) \/ \A i, j \in 1..Len(l) :
                                 i < j => ~Less(Permute(l, q), j, i) } }

-----------------------------------------------------------------------------
(* Bugspots.Hotspots: the scoring loops                                    *)

\* fileLoop with `score = w' for `score += w'
RECURSIVE fileLoop_Overwrite(_, _, _, _, _)
fileLoop_Overwrite(files, k, headFile, w, score) ==
    IF k > Len(files) THEN score
    ELSE fileLoop_Overwrite(files, k + 1, headFile, w,
                            IF files[k] = headFile THEN w ELSE score)

\* for _, file := range commit.files { if file == headFile { score += w } }
RECURSIVE fileLoop(_, _, _, _, _)
fileLoop(files, k, headFile, w, score) ==
    IF k > Len(files) THEN score
    ELSE fileLoop(files, k + 1, headFile, w,
                  IF files[k] = headFile THEN FAdd(score, w) ELSE score)

\* for _, commit := range commits { t := normalizeTimestamp(...); ... }
RECURSIVE commitLoop(_, _, _, _, _, _)
commitLoop(cs, j, headFile, lo, hi, score) ==
    IF j > Len(cs) THEN score
    ELSE commitLoop(cs, j + 1, headFile, lo, hi,
             fileLoop(cs[j].files, 1, headFile,
                      scoreFunc(normalizeTimestamp(cs[j].t, lo, hi)), score))

\* for _, headFile := range headFiles { score := 0.0; ...; if score != 0 { append } }
RECURSIVE headLoop(_, _, _, _, _, _)
headLoop(hf, i, cs, lo, hi, hotspots) ==
    IF i > Len(hf) THEN hotspots
    ELSE LET score == commitLoop(cs, 1, hf[i], lo, hi, F(0))
         IN  headLoop(hf, i + 1, cs, lo, hi,
                 IF NonZero(score)
                 THEN Append(hotspots, [File |-> hf[i], Score |-> score])
                 ELSE hotspots)

\* the hotspots appended before the sort
scored(hf, cs, lo, hi) == headLoop(hf, 1, cs, lo, hi, <<>>)

-----------------------------------------------------------------------------
(* The repository: what the git commands print                             *)

PathSeq == << <<"a">>, <<"b">>, <<"c">> >>

RECURSIVE Itoa(_)
Itoa(n) ==
    IF n < 0 THEN <<"-">> \o Itoa(0 - n)
    ELSE IF n < 10 THEN <<SubSeq(<<"0", "1", "2", "3", "4", "5", "6", "7", "8", "9">>,
                                 n + 1, n + 1)[1]>>
    ELSE Itoa(n \div 10) \o Itoa(n % 10)

Range(s) == {s[i] : i \in 1..Len(s)}

\* commandOutput's results: the trimmed standard output, or the error of a
\* command that could not run or exited non-zero
CmdOk(text) == [out |-> text, err |-> Nil]
CmdFail == [out |-> <<>>, err |-> "exit status"]

\* `git ls-files': one path per line.  A path is listed once, or once per
\* stage while it is unmerged, so a path may repeat.  Hotspots treats paths
\* only by equality, so the lists are enumerated up to renaming: the first
\* occurrences of the paths come in the order of PathSeq.
PathRank(p) == CHOOSE i \in 1..Len(PathSeq) : PathSeq[i] = p

HeadLists ==
    { l \in UNION {[1..n -> Paths] : n \in 0..MaxFiles} :
        \A i \in 1..Len(l) :
            PathRank(l[i]) <= 1 + Cardinality({l[k] : k \in 1..(i - 1)}) }

\* the paths of one record of `git log --name-only': the changed paths, at
\* least one (--diff-filter), each once
FileLists ==
    { SelectSeq(PathSeq, LAMBDA p : p \in S) : S \in (SUBSET Paths) \ {{}} }

CommitKinds == [t : Times, files : FileLists]

RECURSIVE FilesCode(_, _)
FilesCode(files, i) ==
    IF i > Len(PathSeq) THEN 0
    ELSE (IF PathSeq[i] \in Range(files) THEN 1 ELSE 0) + 2 * FilesCode(files, i + 1)

CommitKey(c) == c.t * 1024 + FilesCode(c.files, 1)

\* the bug-fix commits of `git log'.  A score is a sum over the commits, which
\* their order does not change, so each collection of commits is enumerated
\* in one order.
CommitLists ==
    { cs \in UNION {[1..n -> CommitKinds] : n \in 0..MaxCommits} :
        \A i \in 1..(Len(cs) - 1) : CommitKey(cs[i]) >= CommitKey(cs[i + 1]) }

FormatLs(files) == Join(files, <<NL>>)
FormatRev(t) == <<"h", NL>> \o Itoa(t)
FormatCommit(c) == Join(<<Itoa(c.t)>> \o c.files, <<NL>>)
FormatLog(cs) == Join([i \in 1..Len(cs) |-> FormatCommit(cs[i])], <<NL, NL>>)

LsResults == {CmdFail} \cup {CmdOk(FormatLs(l)) : l \in HeadLists}
\* `git rev-list --max-parents=0' prints two lines per root commit
FirstResults ==
    {CmdFail} \cup {CmdOk(FormatRev(t)) : t \in Times}
              \cup {CmdOk(FormatRev(0) \o <<NL>> \o FormatRev(1))}
LastResults == {CmdFail} \cup {CmdOk(FormatRev(t)) : t \in Times}
LogResults == {CmdFail} \cup {CmdOk(FormatLog(cs)) : cs \in CommitLists}

-----------------------------------------------------------------------------
(* Repo.headFiles, firstCommitTime, lastCommitTime, bugFixCommits          *)

Repo_headFiles(r) ==
    IF r.err # Nil THEN [headFiles |-> <<>>, err |-> r.err]
    ELSE [headFiles |-> parseLsFiles(r.out), err |-> Nil]

Repo_firstCommitTime(r) ==
    IF r.err # Nil THEN [t |-> 0, err |-> r.err] ELSE parseRevList(r.out)

Repo_lastCommitTime(r) ==
    IF r.err # Nil THEN [t |-> 0, err |-> r.err] ELSE parseRevList(r.out)

Repo_bugFixCommits(r) ==
    IF r.err # Nil THEN [isNil |-> TRUE, commits |-> <<>>, err |-> r.err]
    ELSE parseLog(r.out)

\* what each query of Hotspots can return: the method applied to every result
\* of its git command
HeadFilesOutcomes == {Repo_headFiles(r) : r \in LsResults}
FirstCommitTimeOutcomes == {Repo_firstCommitTime(r) : r \in FirstResults}
LastCommitTimeOutcomes == {Repo_lastCommitTime(r) : r \in LastResults}
BugFixCommitsOutcomes == {Repo_bugFixCommits(r) : r \in LogResults}

-----------------------------------------------------------------------------
(* float64 arithmetic of Slice: percentile/100 * float64(len(hotspots)).   *)
(* A positive float64 is a 53-bit mantissa m (most significant bit first,  *)
(* m[1] = 1) and the exponent e of its last bit: the value is m * 2^e.     *)
(* Every operation rounds its exact result to nearest, ties to even.       *)

MantissaBits == 53

FZero == [zero |-> TRUE, m |-> <<>>, e |-> 0]

Reverse(s) == [i \in 1..Len(s) |-> s[Len(s) + 1 - i]]

\* the bits of n >= 1, most significant first
RECURSIVE NatBits(_)
NatBits(n) == IF n < 2 THEN <<n>> ELSE Append(NatBits(n \div 2), n % 2)

\* the value of a bit sequence, most significant first
RECURSIVE BitsVal(_)
BitsVal(bits) ==
    IF bits = <<>> THEN 0
    ELSE 2 * BitsVal(SubSeq(bits, 1, Len(bits) - 1)) + bits[Len(bits)]

\* the first cnt bits after the binary point of r/d (0 <= r < d), and the
\* remainder left after them: one step of long division per bit, the bits
\* of the first half and then, from their remainder, those of the second
RECURSIVE FracBits(_, _, _)
FracBits(r, d, cnt) ==
    IF cnt = 0 THEN [bits |-> <<>>, rem |-> r]
    ELSE IF cnt = 1
         THEN LET b == IF 2 * r >= d THEN 1 ELSE 0
              IN  [bits |-> <<b>>, rem |-> 2 * r - b * d]
         ELSE LET first == FracBits(r, d, cnt \div 2)
                  second == FracBits(first.rem, d, cnt - cnt \div 2)
              IN  [bits |-> first.bits \o second.bits, rem |-> second.rem]

\* the zero bits after the binary point of r/d before its first one bit (0 < r < d)
RECURSIVE LeadingZeros(_, _)
LeadingZeros(r, d) == IF 2 * r >= d THEN 0 ELSE 1 + LeadingZeros(2 * r, d)

\* bits + 1, in the same number of bits, and whether it carried out of them:
\* the last zero bit becomes one and the one bits after it zero
Increment(bits) ==
    LET zeros == {i \in 1..Len(bits) : bits[i] = 0}
    IN  IF zeros = {} THEN [bits |-> [i \in 1..Len(bits) |-> 0], carry |-> TRUE]
        ELSE LET last == CHOOSE i \in zeros : \A k \in zeros : k <= i
             IN  [bits |-> [i \in 1..Len(bits) |->
                               IF i < last THEN bits[i] ELSE IF i = last THEN 1 ELSE 0],
                  carry |-> FALSE]

\* round to nearest, ties to even: m with the exponent e of its last bit, the
\* first bit cut off (guard) and whether any one bit follows it (sticky)
RoundNearestEven(m, e, guard, sticky) ==
    IF guard = 1 /\ (sticky \/ m[Len(m)] = 1)
    THEN LET up == Increment(m)
         IN  IF up.carry
             THEN [zero |-> FALSE, m |-> <<1>> \o SubSeq(up.bits, 1, Len(m) - 1), e |-> e + 1]
             ELSE [zero |-> FALSE, m |-> up.bits, e |-> e]
    ELSE [zero |-> FALSE, m |-> m, e |-> e]

\* float64(p) / float64(d) for integers p >= 0, d > 0
FDiv(p, d) ==
    IF p = 0 THEN FZero
    ELSE LET whole == p \div d
             r == p % d
         IN  IF whole > 0
             THEN LET ib == NatBits(whole)
                      fb == FracBits(r, d, MantissaBits - Len(ib) + 1)
                      all == ib \o fb.bits
                  IN  RoundNearestEven(SubSeq(all, 1, MantissaBits),
                                       0 - (MantissaBits - Len(ib)),
                                       all[MantissaBits + 1], fb.rem # 0)
             ELSE LET z == LeadingZeros(r, d)
                      fb == FracBits(r, d, z + MantissaBits + 1)
                  IN  RoundNearestEven(SubSeq(fb.bits, z + 1, z + MantissaBits),
                                       0 - (z + MantissaBits),
                                       fb.bits[z + MantissaBits + 1], fb.rem # 0)

\* the bits of c, least significant first (none for 0)
RECURSIVE NatBitsLSB(_)
NatBitsLSB(c) == IF c = 0 THEN <<>> ELSE <<c % 2>> \o NatBitsLSB(c \div 2)

\* bits * n + carry, least significant bit first, in as many bits as bits
\* has, and the carry out of them: the low half and then, with its carry,
\* the high half
RECURSIVE MulBitsLSB(_, _, _)
MulBitsLSB(bits, n, carry) ==
    IF bits = <<>> THEN [bits |-> <<>>, carry |-> carry]
    ELSE IF Len(bits) = 1
         THEN LET d == bits[1] * n + carry
              IN  [bits |-> <<d % 2>>, carry |-> d \div 2]
         ELSE LET half == Len(bits) \div 2
                  low == MulBitsLSB(SubSeq(bits, 1, half), n, carry)
                  high == MulBitsLSB(SubSeq(bits, half + 1, Len(bits)), n, low.carry)
              IN  [bits |-> low.bits \o high.bits, carry |-> high.carry]

\* x * float64(n) for an integer n >= 0
FMul(x, n) ==
    IF x.zero \/ n = 0 THEN FZero
    ELSE LET mul == MulBitsLSB(Reverse(x.m), n, 0)
             prod == Reverse(mul.bits \o NatBitsLSB(mul.carry))
             extra == Len(prod) - MantissaBits
         IN  IF extra = 0 THEN [zero |-> FALSE, m |-> prod, e |-> x.e]
             ELSE RoundNearestEven(SubSeq(prod, 1, MantissaBits), x.e + extra,
                      prod[MantissaBits + 1],
                      \E i \in (MantissaBits + 2)..Len(prod) : prod[i] = 1)

\* a float64 below 2^52 as its whole part and whether a fraction follows:
\* all that a comparison with an integer and int() read of it
FParts(x, negative) ==
    IF x.zero THEN [neg |-> negative, whole |-> 0, frac |-> FALSE]
    ELSE LET keep == MantissaBits + x.e
         IN  IF keep <= 0 THEN [neg |-> negative, whole |-> 0, frac |-> TRUE]
             ELSE [neg |-> negative,
                   whole |-> BitsVal(SubSeq(x.m, 1, keep)),
                   frac |-> \E i \in (keep + 1)..MantissaBits : x.m[i] = 1]

\* float64(c) for an int c
FInt(c) == [neg |-> c < 0, whole |-> IF c < 0 THEN 0 - c ELSE c, frac |-> FALSE]

\* the least integer >= x, and the greatest integer <= x
FCeil(x) ==
    IF x.neg THEN 0 - x.whole ELSE IF x.frac THEN x.whole + 1 ELSE x.whole
FFloor(x) ==
    IF ~x.neg THEN x.whole ELSE IF x.frac THEN 0 - x.whole - 1 ELSE 0 - x.whole

\* math.Max(float64(c), x) and math.Min(float64(c), x)
FMaxInt(c, x) == IF c >= FCeil(x) THEN FInt(c) ELSE x
FMinInt(c, x) == IF c <= FFloor(x) THEN FInt(c) ELSE x

\* int(x): truncation toward zero
FToInt(x) == IF x.neg THEN 0 - x.whole ELSE x.whole

\* s.percentile/100 * float64(n), the percentile an integer-valued float64
percentileOf(percentile, n) ==
    IF percentile >= 0
    THEN FParts(FMul(FDiv(percentile, 100), n), FALSE)
    ELSE FParts(FMul(FDiv(0 - percentile, 100), n), TRUE)

-----------------------------------------------------------------------------
(* Slicer                                                                  *)

DefaultMinCount == 0
DefaultMaxCount == 2147483647

\* int(math.Min(float64(s.maxCount), math.Max(float64(s.minCount),
\*     s.percentile/100*float64(len(hotspots)))))
retCount(s, n) ==
    FToInt(FMinInt(s.maxCount, FMaxInt(s.minCount, percentileOf(s.percentile, n))))

\* hotspots[:k]: a slice may be resliced up to its capacity, past its length;
\* beyond the capacity (or below 0) the expression panics
Reslice(in, k) ==
    IF k < 0 \/ k > Len(in.arr)
    THEN [op |-> "Slice", panic |-> TRUE, list |-> <<>>]
    ELSE [op |-> "Slice", panic |-> FALSE, list |-> SubSeq(in.arr, 1, k)]

Slice(s, in) == Reslice(in, retCount(s, in.len))

-----------------------------------------------------------------------------
(* Bugspots.Hotspots, statement by statement                               *)

NoRet == [isNil |-> TRUE, list |-> <<>>, cap |-> 0, err |-> Nil]

\* headFiles, err := b.Repo.headFiles()
QueryHeadFiles ==
    /\ pc = "headFiles"
    /\ \E q \in HeadFilesOutcomes :
        /\ headFiles' = q.headFiles
        /\ err' = q.err
        /\ issued' = Append(issued, [query |-> "headFiles", err |-> q.err])
    /\ pc' = "firstCommitTime"
    /\ UNCHANGED <<tfirst, tlast, commits, ret, parserVars, slicerVars, concVars, treeVars>>

\* tfirst, err := b.Repo.firstCommitTime()
QueryFirstCommitTime ==
    /\ pc = "firstCommitTime"
    /\ \E q \in FirstCommitTimeOutcomes :
        /\ tfirst' = q.t
        /\ err' = q.err
        /\ issued' = Append(issued, [query |-> "firstCommitTime", err |-> q.err])
    /\ pc' = "lastCommitTime"
    /\ UNCHANGED <<headFiles, tlast, commits, ret, parserVars, slicerVars, concVars, treeVars>>

\* tlast, err := b.Repo.lastCommitTime()
QueryLastCommitTime ==
    /\ pc = "lastCommitTime"
    /\ \E q \in LastCommitTimeOutcomes :
        /\ tlast' = q.t
        /\ err' = q.err
        /\ issued' = Append(issued, [query |-> "lastCommitTime", err |-> q.err])
    /\ pc' = "bugFixCommits"
    /\ UNCHANGED <<headFiles, tfirst, commits, ret, parserVars, slicerVars, concVars, treeVars>>

\* commits, err := b.Repo.bugFixCommits(b.pattern)
QueryBugFixCommits ==
    /\ pc = "bugFixCommits"
    /\ \E q \in BugFixCommitsOutcomes :
        /\ commits' = q.commits
        /\ err' = q.err
        /\ issued' = Append(issued, [query |-> "bugFixCommits", err |-> q.err])
    /\ pc' = "score"
    /\ UNCHANGED <<headFiles, tfirst, tlast, ret, parserVars, slicerVars, concVars, treeVars>>

\* if err != nil { return nil, err }; the scoring loops; sort.Sort(hotspots);
\* return hotspots, nil.  hotspots is made with capacity len(headFiles).
HotspotsReturns(hf, cs, lo, hi, e) ==
    IF e # Nil THEN {[isNil |-> TRUE, list |-> <<>>, cap |-> 0, err |-> e]}
    ELSE { [isNil |-> FALSE, list |-> l, cap |-> Len(hf), err |-> Nil] :
             l \in SortOutcomes(scored(hf, cs, lo, hi)) }

ScoreAndReturn ==
    /\ pc = "score"
    /\ ret' \in HotspotsReturns(headFiles, commits, tfirst, tlast, err)
    /\ pc' = "done"
    /\ UNCHANGED <<headFiles, tfirst, tlast, commits, err, issued, parserVars, slicerVars, concVars, treeVars>>

HotspotsInit ==
    /\ pc = "headFiles"
    /\ headFiles = <<>>
    /\ tfirst = 0
    /\ tlast = 0
    /\ commits = <<>>
    /\ err = Nil
    /\ issued = <<>>
    /\ ret = NoRet

HotspotsIdle ==
    /\ pc = "idle"
    /\ headFiles = <<>>
    /\ tfirst = 0
    /\ tlast = 0
    /\ commits = <<>>
    /\ err = Nil
    /\ issued = <<>>
    /\ ret = NoRet

ParserIdle ==
    /\ raw = <<>>
    /\ parsed = [op |-> "none"]

SlicerIdle ==
    /\ slicer = [made |-> FALSE, minCount |-> 0, maxCount |-> 0, percentile |-> 0]
    /\ input = [arr |-> <<>>, len |-> 0]
    /\ sliced = [op |-> "none", panic |-> FALSE, list |-> <<>>]

ConcIdle ==
    /\ cwd = "/"
    /\ calls = <<>>
    /\ ran = {}

TreeIdle == tree = [done |-> FALSE, list |-> <<>>]

Init == HotspotsInit /\ ParserIdle /\ SlicerIdle /\ ConcIdle /\ TreeIdle

Next ==
    \/ QueryHeadFiles
    \/ QueryFirstCommitTime
    \/ QueryLastCommitTime
    \/ QueryBugFixCommits
    \/ ScoreAndReturn

\* One call of Hotspots on a repository, the result of each git command chosen
\* when the command runs.
Spec == Init /\ [][Next]_vars

-----------------------------------------------------------------------------
(* The parsers applied to every text of at most MaxLen characters          *)

Texts == UNION {[1..n -> Alphabet] : n \in 0..MaxLen}

ParseLog ==
    /\ parsed.op = "none"
    /\ parsed' = [op |-> "parseLog", res |-> parseLog(raw)]
    /\ UNCHANGED <<raw, hotspotVars, slicerVars, concVars, treeVars>>

ParseRevList ==
    /\ parsed.op = "none"
    /\ parsed' = [op |-> "parseRevList", res |-> parseRevList(raw)]
    /\ UNCHANGED <<raw, hotspotVars, slicerVars, concVars, treeVars>>

ParseLsFiles ==
    /\ parsed.op = "none"
    /\ parsed' = [op |-> "parseLsFiles", res |-> Repo_headFiles(CmdOk(raw)).headFiles]
    /\ UNCHANGED <<raw, hotspotVars, slicerVars, concVars, treeVars>>

InitParse ==
    /\ HotspotsIdle
    /\ SlicerIdle
    /\ ConcIdle
    /\ TreeIdle
    /\ raw \in Texts
    /\ parsed = [op |-> "none"]

NextParse == ParseLog \/ ParseRevList \/ ParseLsFiles

SpecParse == InitParse /\ [][NextParse]_vars

-----------------------------------------------------------------------------
(* A Slicer made, configured and applied to a list of hotspots             *)

\* The percentiles given to NewSlicer (integer-valued float64s), in and out of
\* (0, 100], and the counts given to the setters.
Percentiles == {10, 29, 50, 100, 0, 150, -10}
MinCounts == {-1, 0, 2, 20}
MaxCounts == {-1, 0, 1, 5}

\* The lists handed to Slice.  Slice does not look into a Hotspot, so hotspot
\* i of the list is the number i, and 0 is the zero Hotspot{"", 0}.  Hotspots
\* makes its list with capacity len(headFiles), so a list may have spare
\* capacity, which holds zero Hotspots.
Inputs ==
    { [arr |-> [i \in 1..(n + spare) |-> IF i <= n THEN i ELSE 0], len |-> n] :
        n \in 0..MaxHotspots, spare \in 0..MaxSpare }

NewSlicer ==
    /\ ~slicer.made
    /\ \E percentile \in Percentiles :
        slicer' = [made |-> TRUE, minCount |-> DefaultMinCount,
                   maxCount |-> DefaultMaxCount, percentile |-> percentile]
    /\ UNCHANGED <<input, sliced, hotspotVars, parserVars, concVars, treeVars>>

\* Slicer.SetMinCount: panics, leaving the Slicer as it was, when minCount < 0
SetMinCount ==
    /\ slicer.made
    /\ sliced.op = "none"
    /\ \E minCount \in MinCounts :
        IF minCount < 0
        THEN /\ sliced' = [op |-> "SetMinCount", panic |-> TRUE, list |-> <<>>]
             /\ UNCHANGED slicer
        ELSE /\ slicer' = [slicer EXCEPT !.minCount = minCount]
             /\ UNCHANGED sliced
    /\ UNCHANGED <<input, hotspotVars, parserVars, concVars, treeVars>>

\* Slicer.SetMaxCount: panics, leaving the Slicer as it was, when maxCount <= 0
SetMaxCount ==
    /\ slicer.made
    /\ sliced.op = "none"
    /\ \E maxCount \in MaxCounts :
        IF maxCount <= 0
        THEN /\ sliced' = [op |-> "SetMaxCount", panic |-> TRUE, list |-> <<>>]
             /\ UNCHANGED slicer
        ELSE /\ slicer' = [slicer EXCEPT !.maxCount = maxCount]
             /\ UNCHANGED sliced
    /\ UNCHANGED <<input, hotspotVars, parserVars, concVars, treeVars>>

\* Slicer.Slice(hotspots)
CallSlice ==
    /\ slicer.made
    /\ sliced.op = "none"
    /\ sliced' = Slice(slicer, input)
    /\ UNCHANGED <<slicer, input, hotspotVars, parserVars, concVars, treeVars>>

InitSlice ==
    /\ HotspotsIdle
    /\ ParserIdle
    /\ ConcIdle
    /\ TreeIdle
    /\ slicer = [made |-> FALSE, minCount |-> 0, maxCount |-> 0, percentile |-> 0]
    /\ input \in Inputs
    /\ sliced = [op |-> "none", panic |-> FALSE, list |-> <<>>]

NextSlice == NewSlicer \/ SetMinCount \/ SetMaxCount \/ CallSlice

SpecSlice == InitSlice /\ [][NextSlice]_vars

-----------------------------------------------------------------------------
(* Hotspots calls on different repositories running concurrently in one    *)
(* process: the git commands of each, through newCommandOutputter          *)

\* the number of concurrent calls
MaxCalls == 2

\* the repository paths given to NewRepoByPath, and the directories the
\* process may be working in
Dirs == {"/r1", "/r2", "/r3"}
WorkDirs == Dirs \cup {"/"}

\* the queries of Hotspots, in the order it makes them
QueryNames == <<"headFiles", "firstCommitTime", "lastCommitTime", "bugFixCommits">>

\* a command started without cmd.Dir: it runs in the process's directory
CommandDir_Ambient(dir, wd) == wd

\* cmd.Dir = dir: the child process starts in dir, or in the working
\* directory of the calling process when dir is empty
CommandDir(dir, wd) == IF dir = "" THEN wd ELSE dir

\* cmd := exec.Command(name, args...); cmd.Dir = dir; cmd.Output() starts the
\* child process
StartCommand(p) ==
    /\ calls[p].query <= Len(QueryNames)
    /\ ~calls[p].running
    /\ ran' = ran \cup {[call |-> p, query |-> QueryNames[calls[p].query],
                         dir |-> CommandDir(calls[p].dir, cwd), cwd |-> cwd]}
    /\ calls' = [calls EXCEPT ![p].running = TRUE]
    /\ UNCHANGED <<cwd, hotspotVars, parserVars, slicerVars, treeVars>>

\* cmd.Output() returns; Hotspots goes on to its next query whether or not
\* the command failed
CommandExits(p) ==
    /\ calls[p].running
    /\ calls' = [calls EXCEPT ![p].running = FALSE, ![p].query = @ + 1]
    /\ UNCHANGED <<cwd, ran, hotspotVars, parserVars, slicerVars, treeVars>>

InitConc ==
    /\ HotspotsIdle
    /\ ParserIdle
    /\ SlicerIdle
    /\ TreeIdle
    /\ cwd \in WorkDirs
    /\ \E d \in [1..MaxCalls -> Dirs] :
          /\ \A p, q \in 1..MaxCalls : p # q => d[p] # d[q]
          /\ calls = [p \in 1..MaxCalls |->
                         [dir |-> d[p], query |-> 1, running |-> FALSE]]
    /\ ran = {}

NextConc == \E p \in 1..MaxCalls : StartCommand(p) \/ CommandExits(p)

SpecConc == InitConc /\ [][NextConc]_vars

-----------------------------------------------------------------------------
(* The ordered-tree variant (bugspots.go lines 259-540): every scored file *)
(* is put into a btree ordered by Hotspot.Less, and the tree is ascended   *)
(* with slicer.Iterator.  The tree is written as its items in order.       *)

\* btree.New(2): a node holds at most 2*2 - 1 items
TreeDegree == 2
MaxItems == 2 * TreeDegree - 1

\* Hotspot.Less: a.Score > b.Score
HotspotLess(a, b) == ScoreGreater(a.Score, b.Score)

\* sort.Search(len(s), func(i) { return item.Less(s[i]) }), indices from 0
RECURSIVE Search(_, _, _, _)
Search(items, item, i, j) ==
    IF i < j
    THEN LET h == (i + j) \div 2
         IN  IF ~HotspotLess(item, items[h + 1])
             THEN Search(items, item, h + 1, j)
             ELSE Search(items, item, i, h)
    ELSE i

\* items.find(item): the item that is not less and not greater, if any
find(items, item) ==
    LET i == Search(items, item, 0, Len(items))
    IN  IF i > 0 /\ ~HotspotLess(items[i], item)
        THEN [index |-> i - 1, found |-> TRUE]
        ELSE [index |-> i, found |-> FALSE]

ReplaceAt(items, k, item) == [items EXCEPT ![k] = item]
InsertAt(items, k, item) ==
    SubSeq(items, 1, k - 1) \o <<item>> \o SubSeq(items, k, Len(items))

\* tree.ReplaceOrInsert(item).  With no NaN score the items are ordered and
\* the search finds the same place in a tree of any shape.  A NaN score
\* compares as equal to every score: in a tree of one node the search below
\* is the node's; in a larger tree the place depends on the shape of the
\* tree, and every place is taken as possible.
ReplaceOrInsert(items, item) ==
    IF (item.Score.nan \/ HasNaN(items)) /\ Len(items) >= MaxItems
    THEN {ReplaceAt(items, k, item) : k \in 1..Len(items)}
             \cup {InsertAt(items, k, item) : k \in 1..(Len(items) + 1)}
    ELSE LET f == find(items, item)
         IN  IF f.found THEN {ReplaceAt(items, f.index + 1, item)}
             ELSE {InsertAt(items, f.index + 1, item)}

\* for _, headFile := range headFiles { ...; if score != 0 {
\* tree.ReplaceOrInsert(&Hotspot{headFile, score}) } }
RECURSIVE treeHeadLoop(_, _, _, _, _, _)
treeHeadLoop(hf, i, cs, lo, hi, trees) ==
    IF i > Len(hf) THEN trees
    ELSE LET score == commitLoop(cs, 1, hf[i], lo, hi, F(0))
         IN  treeHeadLoop(hf, i + 1, cs, lo, hi,
                 IF NonZero(score)
                 THEN UNION {ReplaceOrInsert(t, [File |-> hf[i], Score |-> score]) :
                                t \in trees}
                 ELSE trees)

\* slicer.Iterator after its append: TRUE to go on, FALSE to stop
Iterator(s, slice, treeLen) ==
    IF ~(Len(slice) >= s.minCount) THEN TRUE
    ELSE IF Len(slice) = s.maxCount THEN FALSE
    ELSE ~(Len(slice) = FToInt(percentileOf(s.percentile, treeLen)))

\* tree.Ascend(slicer.Iterator): the items in order until Iterator stops
RECURSIVE Ascend(_, _, _, _)
Ascend(items, i, slice, s) ==
    IF i > Len(items) THEN slice
    ELSE LET appended == Append(slice, items[i])
         IN  IF Iterator(s, appended, Len(items))
             THEN Ascend(items, i + 1, appended, s)
             ELSE appended

\* the lists the ordered-tree Hotspots can return when no query failed
TreeHotspots(hf, cs, lo, hi, s) ==
    {Ascend(t, 1, <<>>, s) : t \in treeHeadLoop(hf, 1, cs, lo, hi, {<<>>})}

\* The two variants run on the same repository with the same configuration.
MaxTreeCommits == 2
TreeCommitLists == {cs \in CommitLists : Len(cs) <= MaxTreeCommits}
TreePercentiles == {10, 50, 100}
TreeMinCounts == {0, 2}
TreeMaxCounts == {1, 2, DefaultMaxCount}

\* the zero Hotspot, which fills the spare capacity of a list
ZeroHotspot == [File |-> <<>>, Score |-> F(0)]

\* the full-sort Hotspots
SortVariant ==
    /\ pc = "variants"
    /\ ret' \in HotspotsReturns(headFiles, commits, tfirst, tlast, Nil)
    /\ pc' = "sorted"
    /\ UNCHANGED <<headFiles, tfirst, tlast, commits, err, issued,
                   parserVars, slicerVars, concVars, treeVars>>

\* Slicer.Slice on the list the full-sort Hotspots returned
SliceSorted ==
    /\ pc = "sorted"
    /\ input' = [arr |-> ret.list \o [i \in 1..(ret.cap - Len(ret.list)) |-> ZeroHotspot],
                 len |-> Len(ret.list)]
    /\ sliced' = Slice(slicer, input')
    /\ pc' = "sliced"
    /\ UNCHANGED <<headFiles, tfirst, tlast, commits, err, issued, ret, slicer,
                   parserVars, concVars, treeVars>>

\* the ordered-tree Hotspots
TreeVariant ==
    /\ pc = "sliced"
    /\ \E l \in TreeHotspots(headFiles, commits, tfirst, tlast, slicer) :
          tree' = [done |-> TRUE, list |-> l]
    /\ pc' = "compared"
    /\ UNCHANGED <<headFiles, tfirst, tlast, commits, err, issued, ret,
                   parserVars, slicerVars, concVars>>

InitTree ==
    /\ pc = "variants"
    /\ headFiles \in HeadLists
    /\ tfirst \in Times
    /\ tlast \in Times
    /\ commits \in TreeCommitLists
    /\ err = Nil
    /\ issued = <<>>
    /\ ret = NoRet
    /\ ParserIdle
    /\ \E percentile \in TreePercentiles, minCount \in TreeMinCounts,
             maxCount \in TreeMaxCounts :
          slicer = [made |-> TRUE, minCount |-> minCount, maxCount |-> maxCount,
                    percentile |-> percentile]
    /\ input = [arr |-> <<>>, len |-> 0]
    /\ sliced = [op |-> "none", panic |-> FALSE, list |-> <<>>]
    /\ ConcIdle
    /\ TreeIdle

NextTree == SortVariant \/ SliceSorted \/ TreeVariant

SpecTree == InitTree /\ [][NextTree]_vars

-----------------------------------------------------------------------------
(* The claims                                                              *)

Returned == pc = "done"
ReturnedList == pc = "done" /\ ~ret.isNil

\* C1: if any of the four history queries of Hotspots fails, Hotspots returns
\* a non-nil error and no Hotspot list, whichever query failed.
C1_FailedQueryFailsHotspots ==
    (Returned /\ \E i \in 1..Len(issued) : issued[i].err # Nil)
        => (ret.err # Nil /\ ret.isNil)

\* minCount >= 0, maxCount > 0 and 0 < percentile <= 100
ValidConfig(s) ==
    s.minCount >= 0 /\ s.maxCount > 0 /\ s.percentile > 0 /\ s.percentile <= 100

Min(a, b) == IF a <= b THEN a ELSE b
Max(a, b) == IF a >= b THEN a ELSE b

\* round-down(percentile/100 * n), raised to minCount, then lowered to maxCount
ClampedCount(s, n) ==
    Min(s.maxCount, Max(s.minCount, (s.percentile * n) \div 100))

\* C2: under every valid configuration Slice returns the first k entries of
\* its input, in input order, k being round-down(percentile/100 * N) raised
\* to at least minCount and then lowered to at most maxCount.
C2_SliceReturnsFirstK ==
    (sliced.op = "Slice" /\ ValidConfig(slicer))
        => LET k == ClampedCount(slicer, input.len)
           IN  /\ ~sliced.panic
               /\ Len(sliced.list) = k
               /\ \A i \in 1..k : i <= input.len /\ sliced.list[i] = input.arr[i]

\* C3: under every valid configuration Slice returns normally a list of at
\* most N entries of its input of length N, the empty list when N = 0.
C3_SliceStaysInsideInput ==
    (sliced.op = "Slice" /\ ValidConfig(slicer))
        => /\ ~sliced.panic
           /\ Len(sliced.list) <= input.len

\* C4: the list Hotspots returns is ordered by non-increasing score: no entry
\* has a higher score than an entry before it.
C4_NonIncreasingScores ==
    ReturnedList
        => \A i, j \in 1..Len(ret.list) :
              i < j => ~ScoreGreater(ret.list[j].Score, ret.list[i].Score)

\* the float64 comparison a == b
ScoreEqual(a, b) == ~a.nan /\ ~b.nan /\ a.val = b.val

\* the files of the returned hotspots whose score equals the score v
FilesScoring(v) ==
    {ret.list[i].File : i \in {k \in 1..Len(ret.list) : ScoreEqual(ret.list[k].Score, v)}}

\* C5: hotspots with equal scores are returned in the relative order their
\* files have in the head-file list.
C5_TiesKeepHeadFileOrder ==
    ReturnedList
        => \A i \in 1..Len(ret.list) :
              LET v == ret.list[i].Score
                  tied == SelectSeq(ret.list, LAMBDA h : ScoreEqual(h.Score, v))
              IN  [k \in 1..Len(tied) |-> tied[k].File]
                      = SelectSeq(headFiles, LAMBDA f : f \in FilesScoring(v))

\* C6: every returned Hotspot has a score strictly greater than 0, and its
\* file is among the touched files of some bug-fix commit.
C6_ScoresPositive ==
    ReturnedList
        => \A i \in 1..Len(ret.list) :
              /\ ScoreGreater(ret.list[i].Score, F(0))
              /\ \E j \in 1..Len(commits) : ret.list[i].File \in Range(commits[j].files)

\* the recency weight of a bug-fix commit
WeightOf(c) == scoreFunc(normalizeTimestamp(c.t, tfirst, tlast))

\* the sum of the recency weights of the commits numbered in js
RECURSIVE SumWeights(_)
SumWeights(js) ==
    IF js = {} THEN F(0)
    ELSE LET j == CHOOSE k \in js : TRUE
         IN  FAdd(WeightOf(commits[j]), SumWeights(js \ {j}))

\* the commits whose touched-file list contains the path
CommitsTouching(path) ==
    {j \in 1..Len(commits) : path \in Range(commits[j].files)}

\* C7: the returned list holds exactly one entry for each file of the
\* head-file list whose accumulated score is not zero, and no other entry.
C7_OneEntryPerScoredFile ==
    ReturnedList
        => /\ \A f \in Range(headFiles) :
                 NonZero(SumWeights(CommitsTouching(f)))
                     => Cardinality({i \in 1..Len(ret.list) : ret.list[i].File = f}) = 1
           /\ \A i \in 1..Len(ret.list) :
                 /\ ret.list[i].File \in Range(headFiles)
                 /\ NonZero(SumWeights(CommitsTouching(ret.list[i].File)))

\* C8: the score of each returned Hotspot is the sum of the recency weights
\* of the bug-fix commits whose touched-file list contains exactly its path,
\* each such commit counted once.
C8_ScoreIsSumOfWeights ==
    ReturnedList
        => \A i \in 1..Len(ret.list) :
              ret.list[i].Score = SumWeights(CommitsTouching(ret.list[i].File))

\* a returned hotspot touched by two commits and not by a third
C8_Witness ==
    /\ ReturnedList
    /\ \E i \in 1..Len(ret.list) :
          /\ Cardinality(CommitsTouching(ret.list[i].File)) = 2
          /\ Len(commits) = 3
          /\ ~ret.list[i].Score.nan

\* C9: Slice never runs with a negative minCount, a maxCount that is not
\* positive or a percentile outside (0, 100]: each is refused when it is set.
C9_SliceRunsValidated ==
    sliced.op = "Slice" => ValidConfig(slicer)

\* an optional sign and then one or more decimal digits
IsInteger(line) ==
    LET body == IF line # <<>> /\ line[1] \in {"+", "-"} THEN Tail(line) ELSE line
    IN  body # <<>> /\ \A k \in 1..Len(body) : body[k] \in Digits

\* the records of a log, separated by a blank line, and the lines of each
Records(text) == Split(text, <<NL, NL>>)
Lines(record) == Split(record, <<NL>>)

\* C10: parseLog returns one commit per record, in input order, the first
\* line its timestamp and the other lines its files; no commit for the
\* empty text; and an error with no commit at all when the first line of a
\* record is not an integer.
C10_ParseLog ==
    parsed.op = "parseLog"
        => LET res == parsed.res
               records == Records(raw)
           IN  IF raw = <<>>
               THEN res.err = Nil /\ ~res.isNil /\ res.commits = <<>>
               ELSE IF \A i \in 1..Len(records) : IsInteger(Lines(records[i])[1])
                    THEN /\ res.err = Nil
                         /\ ~res.isNil
                         /\ Len(res.commits) = Len(records)
                         /\ \A i \in 1..Len(records) :
                               /\ Itoa(res.commits[i].t) = Lines(records[i])[1]
                               /\ res.commits[i].files = Tail(Lines(records[i]))
                         /\ FormatLog(res.commits) = raw
                    ELSE res.err # Nil /\ res.isNil /\ res.commits = <<>>

\* a log whose first record parses and whose second does not
C10_Witness ==
    /\ parsed.op = "parseLog"
    /\ parsed.res.err # Nil
    /\ Len(Records(raw)) = 2
    /\ IsInteger(Lines(Records(raw)[1])[1])
    /\ Len(Lines(Records(raw)[1])) = 2

\* the number of lines of a text: one more than its newlines
LineCount(text) == Cardinality({i \in 1..Len(text) : text[i] = NL}) + 1

\* the text after the first newline of a text that has one
AfterNewline(text) ==
    LET i == CHOOSE k \in 1..Len(text) :
                 text[k] = NL /\ \A m \in 1..(k - 1) : text[m] # NL
    IN  SubSeq(text, i + 1, Len(text))

\* C11: parseRevList returns the integer on the second line of a two-line
\* input; an input with another number of lines fails with the no-commits
\* error; a two-line input whose second line is not an integer fails with an
\* error that is not the no-commits error.
C11_ParseRevList ==
    parsed.op = "parseRevList"
        => LET res == parsed.res
           IN  IF LineCount(raw) # 2
               THEN res.err = "no commits"
               ELSE IF IsInteger(AfterNewline(raw))
                    THEN res.err = Nil /\ Itoa(res.t) = AfterNewline(raw)
                    ELSE res.err # Nil /\ res.err # "no commits"

\* a two-line input whose second line is not an integer
C11_Witness ==
    /\ parsed.op = "parseRevList"
    /\ LineCount(raw) = 2
    /\ ~IsInteger(AfterNewline(raw))
    /\ parsed.res.err = "invalid syntax"

\* C12: parseLsFiles, called by headFiles, returns the lines of its input in
\* order, one path per line; for the empty input it returns the empty
\* sequence, not a sequence holding the empty string.
C12_ParseLsFiles ==
    parsed.op = "parseLsFiles"
        => LET res == parsed.res
           IN  IF raw = <<>>
               THEN res = <<>>
               ELSE /\ Len(res) = LineCount(raw)
                    /\ \A i \in 1..Len(res) : NL \notin Range(res[i])
                    /\ Join(res, <<NL>>) = raw

\* the empty input parsed
C12_Witness ==
    /\ parsed.op = "parseLsFiles"
    /\ raw = <<>>
    /\ parsed.res = <<>>

\* C13: after a history query has failed Hotspots issues no later query, and
\* the error Hotspots returns is the error of the first query that failed.
C13_FailsFast ==
    \A i \in 1..Len(issued) :
        issued[i].err # Nil
            => /\ Len(issued) = i
               /\ Returned => ret.err = issued[i].err

\* no query of the call failed
AllQueriesOk == \A i \in 1..Len(issued) : issued[i].err = Nil

\* C14: when the first-commit and the last-commit timestamp are equal, every
\* returned score is a finite number greater than 0, each commit weighing as
\* x = 1 does: no division-by-zero result reaches a score.
C14_NoDivisionByZeroInScores ==
    (ReturnedList /\ AllQueriesOk /\ tfirst = tlast)
        => \A i \in 1..Len(ret.list) :
              /\ ~ret.list[i].Score.nan
              /\ ScoreGreater(ret.list[i].Score, F(0))
              /\ ret.list[i].Score
                     = F(scoreFunc([kind |-> "fin", num |-> 1, den |-> 1]).val
                            * Cardinality(CommitsTouching(ret.list[i].File)))

\* C15: of concurrent Hotspots calls on different repositories every git
\* command runs in the directory of its own call's repository, and the
\* working directory of the process is the one every command found: no call
\* changes it.
C15_CommandsRunInOwnRepository ==
    \A r \in ran : r.dir = calls[r.call].dir /\ r.cwd = cwd

\* two calls whose second queries run at the same time, in a process that
\* works in the repository of neither
C15_Witness ==
    /\ Len(calls) >= 2
    /\ \A p \in 1..Len(calls) :
          calls[p].running /\ calls[p].query = 2 /\ calls[p].dir # cwd
    /\ Cardinality(ran) = 2 * Len(calls)

\* C16: the ordered-tree Hotspots returns the same entries in the same order
\* as the full-sort Hotspots followed by Slicer.Slice with the same minCount,
\* maxCount and percentile.
C16_TreeVariantEqualsSortAndSlice ==
    (pc = "compared" /\ ValidConfig(slicer))
        => ~sliced.panic /\ tree.list = sliced.list

====
